---- MODULE Spec2Model ----
(***************************************************************************)
(* Model of lib/gui/etcher.ts: the Electron main-process bootstrap.        *)
(*                                                                         *)
(* The state is the module-level window handle, the in-flight runs of the  *)
(* async 'ready' handler (each suspended at one of its awaits), the        *)
(* windows those runs created, the auto-updater flags and the counters of  *)
(* the collaborator calls the handlers make.  One action per event         *)
(* handler; a run of the async 'ready' handler is one action per stretch   *)
(* of code between two awaits.                                             *)
(***************************************************************************)
EXTENDS Integers, FiniteSets, Sequences, TLC

(* Bound: number of runs of the 'ready' handler (and so of windows). *)
MaxRuns == 3

RunIds == 1..MaxRuns

(* `let mainWindow: BrowserWindow | null;` is declared without initialiser: *)
(* its first value is undefined, not null.  Window w is the value w >= 1.   *)
Undefined == -1
Null == 0

(* EXIT_CODES.GENERAL_ERROR of lib/shared/exit-codes. *)
GENERAL_ERROR == 1

(* Values of process.arch and process.platform the model draws from. *)
Archs == {"x64", "armv7l", "ia32"}
Platforms == {"darwin", "linux", "win32", "freebsd"}

(* Versions a.b.c as triples; they straddle each minimum of the table. *)
Versions ==
    { <<3, 9, 0>>, <<3, 10, 0>>, <<6, 0, 9>>, <<6, 1, 0>>, <<10, 10, 5>>, <<10, 11, 0>> }

VARIABLES
    arch,              \* process.arch
    plat,              \* process.platform
    osRelease,         \* the version of the running operating system
    osPlatform,        \* the string platform() of 'os' returns
    isDevelopment,     \* process.env.NODE_ENV === 'development'
    mainWindow,        \* the module-level handle: Undefined, Null or a window
    started,           \* number of runs of the 'ready' handler started so far
    runs,              \* the runs of the async 'ready' handler
    win,               \* the BrowserWindow objects, one per run
    autoUpdater,       \* autoDownload / autoInstallOnAppQuit
    updatesReadFalse,  \* some read of 'updatesEnabled' returned false
    analyticsDisabled, \* the analytics collector has been disabled
    exceptionsLogged,  \* calls of logException
    dialogsShown,      \* calls of osDialog.showErrorBox
    settingsReads,     \* calls of settings.get
    showEvents,        \* 'show' events emitted by windows
    hideEvents,        \* 'hide' events emitted by windows
    updateChecks,      \* calls of autoUpdater.checkForUpdates
    allClosedEvents,   \* 'window-all-closed' events delivered
    quitRequests,      \* calls of app.quit()
    pendingAllClosed,  \* the last window closed; 'window-all-closed' is next
    typeErrors,        \* a handler called a method on a null/undefined handle
    terminated,        \* the process has exited
    exitCode,          \* the codes passed to app.exit(), in order
    calls              \* what the guards of the latest run did, in order

env == <<arch, plat, osRelease, osPlatform, isDevelopment>>
counters == <<exceptionsLogged, dialogsShown, settingsReads, showEvents,
              hideEvents, updateChecks, allClosedEvents, quitRequests>>
vars == <<env, mainWindow, started, runs, win, autoUpdater, updatesReadFalse,
          analyticsDisabled,
          counters, pendingAllClosed, typeErrors, terminated, exitCode,
          calls>>

----
(* Startup guards *)

(* A check that lets one more architecture through. *)
ArchSupportedWide(a) == a \in {"armv7l", "x64", "ia32"}

(* ['armv7l', 'x64'].includes(process.arch) *)
ArchSupported(a) == a \in {"armv7l", "x64"}

(* A check that lets every identifier through. *)
PlatformSupportedAny(p) == p \in Platforms

(* ['darwin', 'linux', 'win32'].includes(process.platform) *)
PlatformSupported(p) == p \in {"darwin", "linux", "win32"}

MINIMUM_SUPPORTED_VERSIONS ==
    [darwin |-> <<10, 11, 0>>, linux |-> <<3, 10, 0>>, win32 |-> <<6, 1, 0>>]

(* MINIMUM_SUPPORTED_VERSIONS[p] is undefined for a key the table lacks,   *)
(* and semver.lt throws on it as on any other non-version.                 *)
HasMinimumVersion(p) == p \in DOMAIN MINIMUM_SUPPORTED_VERSIONS

(* semver parses its argument: a string that is no version (the OS          *)
(* identifier) makes it throw `TypeError: Invalid Version`.                 *)
SemverValid(s) == s.isVersion

(* A comparison that looks at the major number only. *)
SemverLtMajorOnly(a, b) == a[1] < b[1]

(* semver.lt on parsed versions: numeric, component by component. *)
SemverLt(a, b) ==
    \/ a[1] < b[1]
    \/ a[1] = b[1] /\ a[2] < b[2]
    \/ a[1] = b[1] /\ a[2] = b[2] /\ a[3] < b[3]

(* platform() is imported from 'os', outside this file.  Node's            *)
(* os.platform() returns the OS identifier, which is no version; the       *)
(* comment on the check takes it for the version of the running system.    *)
(* The model admits both strings, so that the code behind the check is     *)
(* covered as well.                                                        *)
IdentifierString == [isVersion |-> FALSE, ver |-> <<0, 0, 0>>]
VersionString(v) == [isVersion |-> TRUE, ver |-> v]

IsFatal(f) == f \in {"arch", "os", "version"}

(* The checks a run makes, in the order of the code: the allow-list of    *)
(* architectures; if that passes the allow-list of OS identifiers; if that *)
(* passes the lookup in the version table and the call of semver.lt.       *)
GuardChecks ==
    <<"arch">> \o
      (IF ~ArchSupported(arch) THEN <<>>
       ELSE <<"os">> \o
              (IF ~PlatformSupported(plat) THEN <<>> ELSE <<"table", "semver">>))

(* A fatal path that shows the dialog before it logs. *)
FatalCallsDialogFirst == <<"dialog", "log">>

(* logException(new Error(message)); await osDialog.showErrorBox(message) *)
FatalCalls == <<"log", "dialog">>

(* Guards that look at the OS identifier before the architecture. *)
GuardOutcomeOsFirst ==
    IF ~PlatformSupported(plat) THEN "os"
    ELSE IF ~ArchSupported(arch) THEN "arch"
    ELSE IF ~SemverValid(osPlatform) \/ ~HasMinimumVersion(plat) THEN "throw"
    ELSE IF SemverLt(osPlatform.ver, MINIMUM_SUPPORTED_VERSIONS[plat]) THEN "version"
    ELSE "none"

(* The synchronous head of the 'ready' handler, up to its first await (or  *)
(* its throw): which of the fatal conditions it found, and where it stops. *)
GuardOutcome ==
    IF ~ArchSupported(arch) THEN "arch"
    ELSE IF ~PlatformSupported(plat) THEN "os"
    ELSE IF ~SemverValid(osPlatform) \/ ~HasMinimumVersion(plat) THEN "throw"
    ELSE IF SemverLt(osPlatform.ver, MINIMUM_SUPPORTED_VERSIONS[plat]) THEN "version"
    ELSE "none"

NoRun == [pc |-> "idle", failure |-> "none", errorReporting |-> "unread"]

NoWindow == [status |-> "none", visible |-> FALSE, shown |-> FALSE,
             readyToShow |-> FALSE, showListeners |-> 0]

(* A window that was closed: the object is destroyed. *)
ClosedWindow == [NoWindow EXCEPT !.status = "closed"]

Running == ~terminated /\ ~pendingAllClosed

----
Init ==
    /\ arch \in Archs
    /\ plat \in Platforms
    /\ osRelease \in Versions
    /\ osPlatform \in {IdentifierString, VersionString(osRelease)}
    /\ isDevelopment \in BOOLEAN
    /\ mainWindow = Undefined
    /\ started = 0
    /\ runs = [r \in RunIds |-> NoRun]
    /\ win = [w \in RunIds |-> NoWindow]
    /\ autoUpdater = [autoDownload |-> TRUE, autoInstallOnAppQuit |-> TRUE]
    /\ updatesReadFalse = FALSE
    /\ analyticsDisabled = FALSE
    /\ exceptionsLogged = 0
    /\ dialogsShown = 0
    /\ settingsReads = 0
    /\ showEvents = 0
    /\ hideEvents = 0
    /\ updateChecks = 0
    /\ allClosedEvents = 0
    /\ quitRequests = 0
    /\ pendingAllClosed = FALSE
    /\ typeErrors = FALSE
    /\ terminated = FALSE
    /\ exitCode = <<>>
    /\ calls = <<>>

(* The handle refers to a window that exists: a method call on it works.   *)
HandleLive == mainWindow \in RunIds /\ win[mainWindow].status = "live"

(* app.emit('ready'): run r of the handler executes up to its first await. *)
EmitReady(r) ==
    LET f == GuardOutcome IN
    /\ started' = r
    /\ runs' = [runs EXCEPT ![r] =
                  [NoRun EXCEPT !.failure = f,
                                !.pc = CASE IsFatal(f) -> "dialog"
                                         [] f = "throw" -> "rejected"
                                         [] OTHER -> "errorReporting"]]
    /\ exceptionsLogged' = exceptionsLogged + (IF IsFatal(f) THEN 1 ELSE 0)
    /\ dialogsShown' = dialogsShown + (IF IsFatal(f) THEN 1 ELSE 0)
    /\ settingsReads' = settingsReads + (IF f = "none" THEN 1 ELSE 0)
    /\ calls' = GuardChecks \o (IF IsFatal(f) THEN FatalCalls ELSE <<>>)

(* Electron emits 'ready' once, when it has finished initialising. *)
Ready ==
    /\ Running
    /\ started = 0
    /\ EmitReady(1)
    /\ UNCHANGED <<env, mainWindow, win, autoUpdater, updatesReadFalse,
                   analyticsDisabled,
                   showEvents, hideEvents, updateChecks, allClosedEvents,
                   quitRequests, pendingAllClosed, typeErrors, terminated,
                   exitCode>>

(* The await of osDialog.showErrorBox completes: app.exit(GENERAL_ERROR).  *)
(* app.exit ends the process at once, without 'before-quit' and            *)
(* 'will-quit'; the 'quit' event it emits on the way out finds the handle  *)
(* still undefined, so the hide() of its handlers throws.                  *)
DialogDone(r) ==
    /\ Running
    /\ runs[r].pc = "dialog"
    /\ runs' = [runs EXCEPT ![r].pc = "exited"]
    /\ terminated' = TRUE
    /\ exitCode' = Append(exitCode, GENERAL_ERROR)
    /\ typeErrors' = (typeErrors \/ ~HandleLive)
    /\ calls' = Append(calls, "exit")
    /\ UNCHANGED <<env, mainWindow, started, win, autoUpdater, updatesReadFalse,
                   analyticsDisabled, counters, pendingAllClosed>>

(* The body of `if (!errorReporting && !isDevelopment) { await }`: the     *)
(* branch holds a bare await and no call, so the collaborator is left as   *)
(* it was.                                                                 *)
DisableAnalytics == analyticsDisabled

(* The await of settings.get('errorReporting') completes with value v; the *)
(* run goes on to call settings.get('updatesEnabled') and suspends again.  *)
ErrorReportingRead(r) ==
    /\ Running
    /\ runs[r].pc = "errorReporting"
    /\ \E v \in BOOLEAN :
          /\ runs' = [runs EXCEPT ![r].errorReporting = IF v THEN "true" ELSE "false",
                                  ![r].pc = "updatesEnabled"]
          /\ analyticsDisabled' =
                IF ~v /\ ~isDevelopment THEN DisableAnalytics ELSE analyticsDisabled
    /\ settingsReads' = settingsReads + 1
    /\ UNCHANGED <<env, calls, mainWindow, started, win, autoUpdater, updatesReadFalse,
                   exceptionsLogged,
                   dialogsShown, showEvents, hideEvents, updateChecks,
                   allClosedEvents, quitRequests, pendingAllClosed, typeErrors,
                   terminated, exitCode>>

(* Only the download flag is cleared. *)
DisableAutoDownloadOnly == [autoUpdater EXCEPT !.autoDownload = FALSE]

(* autoUpdater.autoDownload = false; autoUpdater.autoInstallOnAppQuit = false *)
DisableAutomaticUpdates ==
    [autoDownload |-> FALSE, autoInstallOnAppQuit |-> FALSE]

(* Listeners that pile up from one run to the next. *)
ShowListenersPiledUp(r) == r

(* The 'show' listeners run r registers on the window it has just created. *)
ShowListeners(r) == 1

(* new BrowserWindow({show: false, ...}) and the five mainWindow.on calls. *)
NewWindow(r) ==
    [status |-> "live", visible |-> FALSE, shown |-> FALSE,
     readyToShow |-> FALSE, showListeners |-> ShowListeners(r)]

(* The await of settings.get('updatesEnabled') completes with value v: the *)
(* rest of the handler runs to its end without another await, and its      *)
(* locals go with it.                                                      *)
UpdatesEnabledRead(r) ==
    /\ Running
    /\ runs[r].pc = "updatesEnabled"
    /\ \E v \in BOOLEAN :
          /\ autoUpdater' = IF ~v THEN DisableAutomaticUpdates ELSE autoUpdater
          /\ updatesReadFalse' = (updatesReadFalse \/ ~v)
    /\ runs' = [runs EXCEPT ![r] = [NoRun EXCEPT !.pc = "done"]]
    /\ win' = [win EXCEPT ![r] = NewWindow(r)]
    /\ mainWindow' = r
    /\ UNCHANGED <<env, calls, started, analyticsDisabled, counters, pendingAllClosed,
                   typeErrors, terminated, exitCode>>

----
(* Window and application event handlers.  Every handler reaches the       *)
(* window through the module-level handle, not through the emitter.        *)

(* mainWindow.show() changes something: the window was not visible. *)
ShowTakesEffect == HandleLive /\ ~win[mainWindow].visible

(* mainWindow.hide() changes something: the window was visible. *)
HideTakesEffect == HandleLive /\ win[mainWindow].visible

(* Handlers that let the quit go through. *)
BeforeQuitAllowed == FALSE

(* The 'before-quit' handlers: each calls event.preventDefault() first, so *)
(* the quit is cancelled (also when the hide() after it throws).  With the *)
(* quit cancelled there, 'will-quit' is never emitted.                     *)
BeforeQuitPrevented == TRUE

(* mainWindow.show() on the windows `ws`: on null/undefined it throws a    *)
(* TypeError; on a hidden window it emits 'show', whose listeners each     *)
(* call autoUpdater.checkForUpdates().                                     *)
ShowMainWindow(ws) ==
    /\ typeErrors' = (typeErrors \/ ~HandleLive)
    /\ win' = IF ShowTakesEffect
                THEN [ws EXCEPT ![mainWindow].visible = TRUE,
                                ![mainWindow].shown = TRUE]
                ELSE ws
    /\ showEvents' = showEvents + (IF ShowTakesEffect THEN 1 ELSE 0)
    /\ updateChecks' = updateChecks +
          (IF ShowTakesEffect THEN win[mainWindow].showListeners ELSE 0)

(* mainWindow.hide(), after `quits` calls of app.quit() in the same task:  *)
(* on null/undefined it throws a TypeError; on a visible window it emits   *)
(* 'hide', whose handler calls app.quit().  Every app.quit() emits         *)
(* 'before-quit'; its handlers cancel the quit and call hide() again, on a *)
(* window that is by then hidden.                                          *)
HideMainWindow(quits) ==
    LET n == quits + (IF HideTakesEffect THEN 1 ELSE 0) IN
    /\ typeErrors' = (typeErrors \/ ~HandleLive)
    /\ win' = IF HideTakesEffect
                THEN [win EXCEPT ![mainWindow].visible = FALSE] ELSE win
    /\ hideEvents' = hideEvents + (IF HideTakesEffect THEN 1 ELSE 0)
    /\ quitRequests' = quitRequests + n
    /\ terminated' = (terminated \/ (n > 0 /\ ~BeforeQuitPrevented))

(* mainWindow.on('ready-to-show'): emitted once per window. *)
ReadyToShow(w) ==
    /\ Running
    /\ win[w].status = "live"
    /\ ~win[w].readyToShow
    /\ ShowMainWindow([win EXCEPT ![w].readyToShow = TRUE])
    /\ UNCHANGED <<env, calls, mainWindow, started, runs, autoUpdater, updatesReadFalse,
                   analyticsDisabled,
                   exceptionsLogged, dialogsShown, settingsReads, hideEvents,
                   allClosedEvents, quitRequests, pendingAllClosed, terminated,
                   exitCode>>

(* mainWindow.on('minimize'): the user minimizes visible window w. *)
Minimize(w) ==
    /\ Running
    /\ win[w].status = "live"
    /\ win[w].visible
    /\ HideMainWindow(0)
    /\ UNCHANGED <<env, calls, mainWindow, started, runs, autoUpdater, updatesReadFalse,
                   analyticsDisabled,
                   exceptionsLogged, dialogsShown, settingsReads, showEvents,
                   updateChecks, allClosedEvents, pendingAllClosed, exitCode>>

(* A 'closed' handler that leaves the handle as it is. *)
HandleKept == mainWindow

(* mainWindow = null *)
HandleAfterClosed == Null

(* mainWindow.on('closed'): window w is closed.  When it was the last one  *)
(* Electron emits 'window-all-closed' right after.                         *)
Closed(w) ==
    /\ Running
    /\ win[w].status = "live"
    /\ win' = [win EXCEPT ![w] = ClosedWindow]
    /\ mainWindow' = HandleAfterClosed
    /\ pendingAllClosed' = (\A x \in RunIds \ {w} : win[x].status # "live")
    /\ UNCHANGED <<env, calls, started, runs, autoUpdater, updatesReadFalse,
                   analyticsDisabled, counters,
                   typeErrors, terminated, exitCode>>

(* app.on('window-all-closed') *)
WindowAllClosed ==
    /\ ~terminated
    /\ pendingAllClosed
    /\ pendingAllClosed' = FALSE
    /\ allClosedEvents' = allClosedEvents + 1
    /\ IF plat # "darwin"
         THEN HideMainWindow(1)
         ELSE UNCHANGED <<typeErrors, win, hideEvents, quitRequests, terminated>>
    /\ UNCHANGED <<env, calls, mainWindow, started, runs, autoUpdater, updatesReadFalse,
                   analyticsDisabled,
                   exceptionsLogged, dialogsShown, settingsReads, showEvents,
                   updateChecks, exitCode>>

(* A loose comparison, which an undefined handle matches too. *)
HandleLooselyNull == mainWindow \in {Null, Undefined}

(* mainWindow === null: an undefined handle does not match. *)
HandleIsNull == mainWindow = Null

(* app.on('activate'): the dock icon is clicked (a macOS event). *)
Activate ==
    /\ Running
    /\ plat = "darwin"
    /\ HandleIsNull => started < MaxRuns
    /\ IF HandleIsNull
         THEN EmitReady(started + 1)
         ELSE UNCHANGED <<started, runs, exceptionsLogged, dialogsShown,
                          settingsReads, calls>>
    /\ UNCHANGED <<env, mainWindow, win, autoUpdater, updatesReadFalse,
                   analyticsDisabled,
                   showEvents, hideEvents, updateChecks, allClosedEvents,
                   quitRequests, pendingAllClosed, typeErrors, terminated,
                   exitCode>>

(* app.on('before-quit'): the user or the system asks the application to   *)
(* quit (menu, Cmd+Q, session end).                                        *)
BeforeQuit ==
    /\ Running
    /\ HideMainWindow(0)
    /\ UNCHANGED <<env, calls, mainWindow, started, runs, autoUpdater, updatesReadFalse,
                   analyticsDisabled,
                   exceptionsLogged, dialogsShown, settingsReads, showEvents,
                   updateChecks, allClosedEvents, pendingAllClosed, exitCode>>

Next ==
    \/ Ready
    \/ \E r \in RunIds : DialogDone(r)
    \/ \E r \in RunIds : ErrorReportingRead(r)
    \/ \E r \in RunIds : UpdatesEnabledRead(r)
    \/ \E w \in RunIds : ReadyToShow(w)
    \/ \E w \in RunIds : Minimize(w)
    \/ \E w \in RunIds : Closed(w)
    \/ WindowAllClosed
    \/ Activate
    \/ BeforeQuit

Spec == Init /\ [][Next]_vars
----
(* Claims *)

LiveWindows == {w \in RunIds : win[w].status = "live"}
CreatedWindows == {w \in RunIds : win[w].status # "none"}

(* C1: with an architecture outside {armv7l, x64} the 'ready' handler      *)
(* logs one exception, shows one error dialog and then exits with the      *)
(* general-error code; it reads no setting, creates no window and never    *)
(* assigns the window handle.                                              *)
C1_UnsupportedArchExits ==
    arch \notin {"armv7l", "x64"} =>
        /\ mainWindow = Undefined
        /\ CreatedWindows = {}
        /\ settingsReads = 0
        /\ started <= 1
        /\ started = 1 =>
              /\ runs[1].failure = "arch"
              /\ runs[1].pc \in {"dialog", "exited"}
              /\ exceptionsLogged = 1
              /\ dialogsShown = 1
              /\ runs[1].pc = "dialog" => ~terminated /\ exitCode = <<>>
              /\ runs[1].pc = "exited" => terminated /\ exitCode = <<GENERAL_ERROR>>

C1_Witness ==
    /\ arch = "ia32"
    /\ runs[1].pc = "exited"
    /\ terminated
    /\ exitCode = <<GENERAL_ERROR>>
    /\ mainWindow = Undefined

(* C2: on a supported OS identifier, startup exits with the general-error  *)
(* code when the version of the operating system is below the minimum of   *)
(* the table, and does not take that exit when it is at or above it.       *)
C2_VersionBelowMinimumExits ==
    (arch \in {"armv7l", "x64"} /\ plat \in {"darwin", "linux", "win32"}
        /\ started >= 1) =>
        IF SemverLt(osRelease, MINIMUM_SUPPORTED_VERSIONS[plat])
          THEN /\ runs[1].failure = "version"
               /\ runs[1].pc \in {"dialog", "exited"}
               /\ runs[1].pc = "exited" => terminated /\ exitCode = <<GENERAL_ERROR>>
          ELSE /\ runs[1].failure = "none"
               /\ ~terminated

(* C3: a run that read errorReporting = false in a build that is not a     *)
(* development build has the analytics collector disabled by the time it   *)
(* creates its window.                                                     *)
C3_AnalyticsDisabledBeforeWindow ==
    [][\A r \in RunIds :
          (/\ runs[r].errorReporting = "false"
           /\ ~isDevelopment
           /\ win[r].status = "none"
           /\ win'[r].status = "live") => analyticsDisabled']_vars

(* C4: once a read of updatesEnabled has returned false, autoDownload and  *)
(* autoInstallOnAppQuit are both false, and so they are at the moment of   *)
(* every update check made from then on.                                   *)
C4_UpdaterFlagsOffBeforeCheck ==
    /\ [](updatesReadFalse =>
            ~autoUpdater.autoDownload /\ ~autoUpdater.autoInstallOnAppQuit)
    /\ [][(updateChecks' > updateChecks /\ updatesReadFalse) =>
            ~autoUpdater.autoDownload /\ ~autoUpdater.autoInstallOnAppQuit]_vars

C4_Witness ==
    /\ started = 1
    /\ updatesReadFalse
    /\ updateChecks = 1
    /\ ~autoUpdater.autoDownload
    /\ ~autoUpdater.autoInstallOnAppQuit

(* C5: a step that emits a 'show' event makes exactly one update check,    *)
(* and a step that emits none makes none; also for the windows of the      *)
(* startup runs that 'activate' started.                                   *)
C5_OneCheckPerShow ==
    [][/\ showEvents' - showEvents \in {0, 1}
       /\ updateChecks' - updateChecks = showEvents' - showEvents]_vars

C5_Witness ==
    /\ started >= 2
    /\ win[2].visible
    /\ showEvents = 2
    /\ updateChecks = 2

(* C6: a 'window-all-closed' event terminates the application when the     *)
(* platform is not darwin and does not terminate it when it is darwin.     *)
C6_AllClosedTerminatesOffDarwin ==
    [][allClosedEvents' = allClosedEvents + 1 =>
          (terminated' <=> plat # "darwin")]_vars

(* C7: with a supported architecture and an OS identifier outside          *)
(* {darwin, linux, win32}, startup logs one exception, shows one error     *)
(* dialog and then exits with the general-error code, without reading a    *)
(* setting or creating a window.                                           *)
C7_UnsupportedPlatformExits ==
    (arch \in {"armv7l", "x64"} /\ plat \notin {"darwin", "linux", "win32"}) =>
        /\ mainWindow = Undefined
        /\ CreatedWindows = {}
        /\ settingsReads = 0
        /\ started <= 1
        /\ started = 1 =>
              /\ runs[1].failure = "os"
              /\ runs[1].pc \in {"dialog", "exited"}
              /\ exceptionsLogged = 1
              /\ dialogsShown = 1
              /\ runs[1].pc = "dialog" => ~terminated /\ exitCode = <<>>
              /\ runs[1].pc = "exited" => terminated /\ exitCode = <<GENERAL_ERROR>>

C7_Witness ==
    /\ arch = "x64"
    /\ plat = "freebsd"
    /\ runs[1].pc = "exited"
    /\ terminated
    /\ exitCode = <<GENERAL_ERROR>>
    /\ settingsReads = 0

(* C8: at most one main window is live at a time, and when one is live     *)
(* the handle refers to it.                                                *)
C8_AtMostOneLiveWindow ==
    /\ Cardinality(LiveWindows) <= 1
    /\ \A w \in LiveWindows : mainWindow = w

(* C9: a 'hide' event of the main window terminates the application.       *)
C9_HideTerminates ==
    [][hideEvents' > hideEvents => terminated']_vars

(* C10: the 'closed' event of a window leaves the handle null; an          *)
(* 'activate' event that finds the handle null starts a run of the startup *)
(* sequence, which passes the guards and goes on to the settings reads;    *)
(* and a run that completes creates its window and makes the handle refer  *)
(* to it.                                                                  *)
C10_ClosedThenActivateRecreates ==
    [][/\ \A w \in RunIds :
            (win[w].status = "live" /\ win'[w].status = "closed") =>
                mainWindow' = Null
       /\ (Activate /\ mainWindow = Null) =>
            /\ started' = started + 1
            /\ runs'[started'].pc = "errorReporting"
            /\ settingsReads' = settingsReads + 1
       /\ \A r \in RunIds :
            (runs[r].pc = "updatesEnabled" /\ runs'[r].pc = "done") =>
                /\ win[r].status = "none"
                /\ win'[r].status = "live"
                /\ mainWindow' = r]_vars

C10_Witness ==
    /\ win[1].status = "closed"
    /\ started = 2
    /\ runs[2].pc = "done"
    /\ win[2].status = "live"
    /\ mainWindow = 2

(* C11: every 'before-quit', 'will-quit' and 'quit' event that is          *)
(* delivered has its default action cancelled and leaves the main window   *)
(* hidden.  ('before-quit' is the one that is delivered while the process  *)
(* runs: by the host, or by app.quit().)                                   *)
C11_QuitEventsCancelAndHide ==
    [][(BeforeQuit \/ quitRequests' > quitRequests) =>
          /\ ~terminated'
          /\ HandleLive
          /\ ~win'[mainWindow].visible]_vars

(* Startup passed the three guards: its first run went on to the settings. *)
PassedGuards == runs[1].pc \in {"errorReporting", "updatesEnabled", "done"}

C17_NoCallOnAbsentHandle == ~typeErrors

(* C18: an 'activate' event delivered while the handle is not null (a      *)
(* window, or still undefined) changes nothing.                            *)
C18_ActivateWithHandleIsNoOp ==
    [][(Activate /\ mainWindow # Null) => UNCHANGED vars]_vars

C18_Witness ==
    /\ plat = "darwin"
    /\ Running
    /\ HandleLive
    /\ win[mainWindow].visible
    /\ updateChecks = 1

(* What the latest run did on its fatal path, after the checks. *)
FatalSteps == SelectSeq(calls, LAMBDA c : c \in {"log", "dialog", "exit"})

(* C13: on each of the three fatal paths the run logs the exception, then  *)
(* shows the dialog, and exits only when the dialog has completed; the     *)
(* exit code is the general-error code on all three, and startup is not    *)
(* run again.                                                              *)
C13_LogThenDialogThenExit ==
    \A f \in {"arch", "os", "version"} :
        (started >= 1 /\ runs[1].failure = f) =>
            /\ started = 1
            /\ exceptionsLogged = 1
            /\ dialogsShown = 1
            /\ runs[1].pc \in {"dialog", "exited"}
            /\ runs[1].pc = "dialog" =>
                  /\ FatalSteps = <<"log", "dialog">>
                  /\ ~terminated
                  /\ exitCode = <<>>
            /\ runs[1].pc = "exited" =>
                  /\ FatalSteps = <<"log", "dialog", "exit">>
                  /\ terminated
                  /\ exitCode = <<GENERAL_ERROR>>

C13_Witness ==
    /\ runs[1].failure = "version"
    /\ runs[1].pc = "exited"
    /\ calls = <<"arch", "os", "table", "semver", "log", "dialog", "exit">>
    /\ exitCode = <<GENERAL_ERROR>>

(* v is at or above the minimum m. *)
AtLeast(v, m) ==
    \/ v[1] > m[1]
    \/ v[1] = m[1] /\ v[2] > m[2]
    \/ v[1] = m[1] /\ v[2] = m[2] /\ v[3] >= m[3]

(* C14: whenever a main window exists, the architecture and the OS         *)
(* identifier are in their allow-lists and the version the startup run     *)
(* checked is at or above the minimum of the table; for the window of the  *)
(* first run and for those of the runs 'activate' started.                 *)
C14_WindowImpliesGuardsPassed ==
    CreatedWindows # {} =>
        /\ arch \in {"armv7l", "x64"}
        /\ plat \in {"darwin", "linux", "win32"}
        /\ osPlatform.isVersion
        /\ plat = "darwin" => AtLeast(osPlatform.ver, <<10, 11, 0>>)
        /\ plat = "linux" => AtLeast(osPlatform.ver, <<3, 10, 0>>)
        /\ plat = "win32" => AtLeast(osPlatform.ver, <<6, 1, 0>>)

C14_Witness ==
    /\ win[1].status = "closed"
    /\ win[2].status = "live"
    /\ win[2].visible

(* C15: every 'minimize' event of a window leaves that window hidden and   *)
(* emits 'hide', whose handler requests a quit.                            *)
C15_MinimizeHidesAndQuits ==
    [][\A w \in RunIds :
          Minimize(w) =>
              /\ ~win'[w].visible
              /\ hideEvents' = hideEvents + 1
              /\ quitRequests' = quitRequests + 1]_vars

(* C19: the guards run in the order architecture, OS identifier, version;  *)
(* a run reports the first failing check only, with one exception logged   *)
(* and one dialog shown, and looks into the version table only for an OS   *)
(* identifier of the allow-list.                                           *)
C19_FirstFailingGuardOnly ==
    started >= 1 =>
        LET checks == SelectSeq(calls,
                        LAMBDA c : c \in {"arch", "os", "table", "semver"})
            archOk == arch \in {"armv7l", "x64"}
            platOk == plat \in {"darwin", "linux", "win32"}
        IN  /\ ~archOk => runs[1].failure = "arch" /\ checks = <<"arch">>
            /\ (archOk /\ ~platOk) =>
                  runs[1].failure = "os" /\ checks = <<"arch", "os">>
            /\ (archOk /\ platOk) =>
                  /\ runs[1].failure \in {"throw", "version", "none"}
                  /\ checks = <<"arch", "os", "table", "semver">>
            /\ exceptionsLogged = (IF runs[1].failure \in {"arch", "os", "version"}
                                     THEN 1 ELSE 0)
            /\ dialogsShown = exceptionsLogged
            /\ (\E i \in 1..Len(calls) : calls[i] = "table") => platOk

C19_Witness ==
    /\ arch = "ia32"
    /\ plat = "freebsd"
    /\ started = 1
    /\ runs[1].failure = "arch"
    /\ exceptionsLogged = 1
    /\ dialogsShown = 1
    /\ calls = <<"arch", "log", "dialog">>

(* The state of the toggle a state of the program stands for: a window     *)
(* that was created with show: false and has not been shown yet does not   *)
(* count as a window.                                                      *)
Phase ==
    IF terminated THEN "terminated"
    ELSE IF \E w \in LiveWindows : win[w].visible THEN "window-visible"
    ELSE IF \E w \in LiveWindows : win[w].shown THEN "window-hidden"
    ELSE "no-window"

(* The steps of the toggle, and the exit of the startup guards. *)
ToggleSteps ==
    { <<"no-window", "window-visible">>,
      <<"window-visible", "window-hidden">>,
      <<"window-hidden", "terminated">>,
      <<"no-window", "terminated">> }

(* The steps the handlers add to the toggle: 'closed' leads back to        *)
(* no-window, and a hidden window can be shown again.                      *)
ReturnSteps ==
    { <<"window-visible", "no-window">>,
      <<"window-hidden", "no-window">>,
      <<"window-hidden", "window-visible">> }

====
